---- MODULE Spec2Model ----
(***************************************************************************)
(* EduVision "Medical PDF Assistant": the session table of app/main.py,    *)
(* the inference adapter of app/ai_utils.py and the extraction helpers of  *)
(* app/pdf_utils.py.                                                       *)
(*                                                                         *)
(* Every request handler of main.py is an async def whose body contains  *)
(* no await after the upload has been read, and the inference calls are    *)
(* blocking calls made on the event loop: a handler therefore runs from    *)
(* its first to its last statement without another handler in between,     *)
(* and each handler is one action.                                         *)
(*                                                                         *)
(* Python values are tagged records (None, str, list, number, dict).  A    *)
(* text is a sequence of tokens: a token is one character or one chunk of  *)
(* characters that no operation of the program splits.                     *)
(***************************************************************************)
EXTENDS Integers, Sequences, FiniteSets, TLC

VARIABLES SESSION_DATA, files, calls, last, response

vars == <<SESSION_DATA, files, calls, last, response>>

----------------------------------------------------------------------------
(* Bounds *)

\* uploads that create a session
MaxSessions == 2
\* inference calls made in one run of the artifact cache
MaxCalls == 3
\* inference calls made in one run of the labeling
MaxLabelCalls == 4
\* inference calls made in one run of the uploads
MaxUploadCalls == 3

----------------------------------------------------------------------------
(* Python values *)

None == [t |-> "none"]
Str(s) == [t |-> "str", s |-> s]
List(l) == [t |-> "list", l |-> l]
Num(n) == [t |-> "num", n |-> n]
Dict(d) == [t |-> "dict", d |-> d]

\* truth value of an object: None, "", [], 0 and {} are false; a path is a
\* str that is not empty
Truthy(v) ==
    CASE v.t = "none" -> FALSE
      [] v.t = "path" -> TRUE
      [] v.t = "str" -> v.s # <<>>
      [] v.t = "list" -> v.l # <<>>
      [] v.t = "num" -> v.n # 0
      [] v.t = "dict" -> DOMAIN v.d # {}

Whitespace == {" ", "NL"}

RECURSIVE lstrip(_)
lstrip(s) == IF s # <<>> /\ Head(s) \in Whitespace THEN lstrip(Tail(s)) ELSE s

RECURSIVE rstrip(_)
rstrip(s) ==
    IF s # <<>> /\ s[Len(s)] \in Whitespace
    THEN rstrip(SubSeq(s, 1, Len(s) - 1))
    ELSE s

\* str.strip()
strip(s) == rstrip(lstrip(s))

\* str.startswith(p)
startswith(s, p) == Len(s) >= Len(p) /\ SubSeq(s, 1, Len(p)) = p

\* p in s, for two texts
IsSubstring(p, s) ==
    \E i \in 0..(Len(s) - Len(p)) : SubSeq(s, i + 1, i + Len(p)) = p

\* str.splitlines(): the lines between the line breaks, no trailing empty line
RECURSIVE splitlines(_)
splitlines(s) ==
    IF s = <<>> THEN <<>>
    ELSE IF \E i \in 1..Len(s) : s[i] = "NL"
         THEN LET i == CHOOSE k \in 1..Len(s) :
                           s[k] = "NL" /\ \A j \in 1..(k - 1) : s[j] # "NL"
              IN  <<SubSeq(s, 1, i - 1)>> \o splitlines(SubSeq(s, i + 1, Len(s)))
         ELSE <<s>>

----------------------------------------------------------------------------
(* Inference adapter: the text operations of ai_utils.py *)

\* Outcome of client.chat.completions.create followed by
\* resp.choices[0].message.content
ConnError == [kind |-> "APIConnectionError"]
OtherError == [kind |-> "Exception"]
Reply(content) == [kind |-> "reply", content |-> content]

ErrorPrefix == <<"Error:">>

\* stripContent with a missing content read as the empty text
stripContent_OrEmpty(content) ==
    [ok |-> TRUE, s |-> IF content.t = "str" THEN strip(content.s) ELSE <<>>]

\* resp.choices[0].message.content.strip(): None has no strip
stripContent(content) ==
    IF content.t = "str" THEN [ok |-> TRUE, s |-> strip(content.s)]
    ELSE [ok |-> FALSE, s |-> <<>>]

summarize_text(o) ==
    CASE o.kind = "APIConnectionError" ->
            Str(<<"Error:", " ", "unable to contact Azure OpenAI for summary. Please check endpoint / network.">>)
      [] o.kind = "Exception" -> Str(<<"Error:", " ", "summarization failed.">>)
      [] o.kind = "reply" ->
            IF stripContent(o.content).ok THEN Str(stripContent(o.content).s)
            ELSE Str(<<"Error:", " ", "summarization failed.">>)

translate_text(o, language) ==
    CASE o.kind = "APIConnectionError" ->
            Str(<<"Error:", " ", "unable to contact Azure OpenAI for translation to", " ", language, ".">>)
      [] o.kind = "Exception" -> Str(<<"Error:", " ", "translation failed.">>)
      [] o.kind = "reply" ->
            IF stripContent(o.content).ok THEN Str(stripContent(o.content).s)
            ELSE Str(<<"Error:", " ", "translation failed.">>)

translate_summary(o, language) == translate_text(o, language)

generate_detailed_text(o) ==
    CASE o.kind = "APIConnectionError" ->
            Str(<<"Error:", " ", "unable to contact Azure OpenAI for detailed explanation.">>)
      [] o.kind = "Exception" -> Str(<<"Error:", " ", "details generation failed.">>)
      [] o.kind = "reply" ->
            IF stripContent(o.content).ok THEN Str(stripContent(o.content).s)
            ELSE Str(<<"Error:", " ", "details generation failed.">>)

\* [line for line in lines if line.strip()]
RECURSIVE NonBlankLines(_)
NonBlankLines(lines) ==
    IF lines = <<>> THEN <<>>
    ELSE (IF strip(Head(lines)) # <<>> THEN <<Str(Head(lines))>> ELSE <<>>)
             \o NonBlankLines(Tail(lines))

generate_references(o) ==
    CASE o.kind = "APIConnectionError" ->
            List(<<Str(<<"Error:", " ", "unable to contact Azure OpenAI for references.">>)>>)
      [] o.kind = "Exception" ->
            List(<<Str(<<"Error:", " ", "reference generation failed.">>)>>)
      [] o.kind = "reply" ->
            IF stripContent(o.content).ok
            THEN List(NonBlankLines(splitlines(stripContent(o.content).s)))
            ELSE List(<<Str(<<"Error:", " ", "reference generation failed.">>)>>)

\* "\n".join(refs)
RECURSIVE JoinLines(_)
JoinLines(refs) ==
    IF refs = <<>> THEN <<>>
    ELSE IF Len(refs) = 1 THEN Head(refs).s
    ELSE Head(refs).s \o <<"NL">> \o JoinLines(Tail(refs))

\* the lines that translate_references returns for the outcome o of its call
TranslatedLines(o) ==
    IF o.kind = "reply" /\ stripContent(o.content).ok
    THEN NonBlankLines(splitlines(stripContent(o.content).s))
    ELSE <<Str(<<"Error:", " ", "reference translation failed.">>)>>

\* translate_references (the second definition of the module, which is the
\* one in use): the lines that it returns and the texts that it submits to
\* the chat completion
translate_references(refs, language, o) ==
    IF refs = <<>> THEN [lines |-> List(<<>>), submitted |-> <<>>]
    ELSE [lines |-> List(TranslatedLines(o)), submitted |-> <<JoinLines(refs)>>]

----------------------------------------------------------------------------
(* Inference adapter: image classification *)

Fallback == Dict([k \in {"organ", "labels"} |->
                    IF k = "organ" THEN Str(<<"unknown">>) ELSE List(<<>>)])

\* index of the first / last occurrence of token c in s, 0 when there is none
\* (str.find and str.rfind return -1; positions here are counted from 1)
find(s, c) ==
    IF \E i \in 1..Len(s) : s[i] = c
    THEN CHOOSE i \in 1..Len(s) : s[i] = c /\ \A j \in 1..(i - 1) : s[j] # c
    ELSE 0

rfind(s, c) ==
    IF \E i \in 1..Len(s) : s[i] = c
    THEN CHOOSE i \in 1..Len(s) : s[i] = c /\ \A j \in (i + 1)..Len(s) : s[j] # c
    ELSE 0

\* the markdown code fence (three backquotes), one token
Fence == "FENCE"

\* text.split(fence, 2)[1] for a text that starts with the fence
AfterFirstFence(s) ==
    LET rest == Tail(s)
        nxt == find(rest, Fence)
    IN  IF nxt = 0 THEN rest ELSE SubSeq(rest, 1, nxt - 1)

\* if text.startswith(fence): text = text.split(fence, 2)[1].strip()
StripLeadingFence(text) ==
    IF text # <<>> /\ Head(text) = Fence THEN strip(AfterFirstFence(text)) ELSE text

\* if text.endswith(fence): text = text[:-3].strip()
StripTrailingFence(text) ==
    IF text # <<>> /\ text[Len(text)] = Fence
    THEN strip(SubSeq(text, 1, Len(text) - 1))
    ELSE text

\* text[start : end + 1] when both braces are found and end > start
BraceSlice(text, start, end) ==
    IF start # 0 /\ end # 0 /\ end > start THEN SubSeq(text, start, end) ELSE text

FirstToLastBrace(text) == BraceSlice(text, find(text, "{"), rfind(text, "}"))

_extract_json_object(text) ==
    IF text = <<>> THEN text
    ELSE FirstToLastBrace(StripTrailingFence(StripLeadingFence(strip(text))))

heart == <<"h", "e", "a", "r", "t">>

\* JSON members that stand for one token of a response, a key and its value
JsonMember ==
    [tok \in {"organ:heart", "organ:Heart_", "organ:knee", "organ:xray",
              "organ:empty", "organ:null", "organ:5", "organ:list",
              "labels:aorta", "labels:null"} |->
        CASE tok = "organ:heart" -> <<"organ", Str(heart)>>
          [] tok = "organ:Heart_" -> <<"organ", Str(<<"H", "e", "a", "r", "t", " ">>)>>
          [] tok = "organ:knee" -> <<"organ", Str(<<"k", "n", "e", "e">>)>>
          [] tok = "organ:xray" -> <<"organ", Str(<<"x", "r", "a", "y">>)>>
          [] tok = "organ:empty" -> <<"organ", Str(<<>>)>>
          [] tok = "organ:null" -> <<"organ", None>>
          [] tok = "organ:5" -> <<"organ", Num(5)>>
          [] tok = "organ:list" -> <<"organ", List(<<Str(heart)>>)>>
          [] tok = "labels:aorta" -> <<"labels", List(<<Str(<<"aorta">>)>>)>>
          [] tok = "labels:null" -> <<"labels", None>>]

\* JSON documents that are not objects and stand for one token of a response
JsonScalar ==
    [tok \in {"[organ,labels]", "[1]", "'organ labels'", "'x'", "7", "null"} |->
        CASE tok = "[organ,labels]" -> List(<<Str(<<"organ">>), Str(<<"labels">>)>>)
          [] tok = "[1]" -> List(<<Num(1)>>)
          [] tok = "'organ labels'" -> Str(<<"organ", " ", "labels">>)
          [] tok = "'x'" -> Str(<<"x">>)
          [] tok = "7" -> Num(7)
          [] tok = "null" -> None]

\* the object of a member list; of two members with one key the last one wins
RECURSIVE MembersToDict(_)
MembersToDict(ms) ==
    IF ms = <<>> THEN << >>
    ELSE LET m == JsonMember[ms[Len(ms)]]
             d == MembersToDict(SubSeq(ms, 1, Len(ms) - 1))
         IN  [k \in (DOMAIN d) \cup {m[1]} |-> IF k = m[1] THEN m[2] ELSE d[k]]

\* the JSON document of a text without surrounding whitespace: [ok, v]
ParseJson(s) ==
    IF Len(s) >= 2 /\ s[1] = "{" /\ s[Len(s)] = "}"
       /\ \A i \in 2..(Len(s) - 1) : s[i] \in DOMAIN JsonMember
    THEN [ok |-> TRUE, v |-> Dict(MembersToDict(SubSeq(s, 2, Len(s) - 1)))]
    ELSE IF Len(s) = 1 /\ s[1] \in DOMAIN JsonScalar
    THEN [ok |-> TRUE, v |-> JsonScalar[s[1]]]
    ELSE [ok |-> FALSE, v |-> None]

\* json.loads: [ok, v]
json_loads(text) == ParseJson(strip(text))

\* key in data: [ok, b]; not ok is the TypeError of a value that is no container
PyIn(key, data) ==
    CASE data.t = "dict" -> [ok |-> TRUE, b |-> key \in DOMAIN data.d]
      [] data.t = "list" -> [ok |-> TRUE, b |-> \E i \in 1..Len(data.l) : data.l[i] = Str(<<key>>)]
      [] data.t = "str" -> [ok |-> TRUE, b |-> IsSubstring(<<key>>, data.s)]
      [] OTHER -> [ok |-> FALSE, b |-> FALSE]

\* data[key] = value: [ok, v]; only a dict takes a str key
PySetItem(data, key, value) ==
    IF data.t = "dict"
    THEN [ok |-> TRUE,
          v |-> Dict([k \in (DOMAIN data.d) \cup {key} |->
                         IF k = key THEN value ELSE data.d[k]])]
    ELSE [ok |-> FALSE, v |-> data]

SetUnlessIn(isIn, data, key, value) ==
    IF ~isIn.ok THEN [ok |-> FALSE, v |-> data]
    ELSE IF isIn.b THEN [ok |-> TRUE, v |-> data]
    ELSE PySetItem(data, key, value)

\* the default of one key: if key not in data: data[key] = value
FillDefault(data, key, value) == SetUnlessIn(PyIn(key, data), data, key, value)

\* the text of a reply: a list of parts is joined, None is ""
RECURSIVE JoinParts(_)
JoinParts(parts) ==
    IF parts = <<>> THEN <<>>
    ELSE (IF Head(parts).t = "dict" /\ "text" \in DOMAIN Head(parts).d
          THEN Head(parts).d["text"].s ELSE <<>>) \o JoinParts(Tail(parts))

ContentText(content) ==
    CASE content.t = "list" -> JoinParts(content.l)
      [] content.t = "none" -> <<>>
      [] content.t = "str" -> content.s

\* a TypeError while the defaults are filled in is caught by the outer except
ValueOrFallback(d) == IF d.ok THEN d.v ELSE Fallback

FillLabels(d) ==
    IF d.ok THEN ValueOrFallback(FillDefault(d.v, "labels", List(<<>>))) ELSE Fallback

FillOrgan(parsed) ==
    IF parsed.ok THEN FillLabels(FillDefault(parsed.v, "organ", Str(<<"unknown">>)))
    ELSE Fallback

\* identify_organ (the last definition of the module, which is the one in use)
identify_organ(readable, o) ==
    IF ~readable THEN Fallback
    ELSE IF o.kind # "reply" THEN Fallback
    ELSE FillOrgan(json_loads(_extract_json_object(ContentText(o.content))))

----------------------------------------------------------------------------
(* Organ resolver *)

LowerChar(c) == IF c = "H" THEN "h" ELSE c

\* str.lower()
lower(s) == [i \in 1..Len(s) |-> LowerChar(s[i])]

\* a slice of the synonym mapping, in the order of its definition
mapping ==
    << <<heart, "heart.jpg">>,
       << <<"l", "u", "n", "g">>, "lungs.jpg">>,
       << <<"l", "u", "n", "g", "s">>, "lungs.jpg">>,
       << <<"e", "a", "r">>, "ear.jpg">>,
       << <<"e", "a", "r", "s">>, "ear.jpg">>,
       << <<"k", "n", "e", "e">>, "joint.jpg">> >>

\* the files present in ORGAN_IMAGE_DIR
OrganFiles == {"heart.jpg", "lungs.jpg", "ear.jpg"}

OrganPath(filename) == [t |-> "path", dir |-> "organs", name |-> filename]

\* get_static_organ_image: [raised, v]; raised is the AttributeError of
\* organ.lower() on a value that is not a str

\* First with the last position instead of the first
First_Last(S) == CHOOSE i \in S : \A j \in S : i >= j

\* the first position of a set of positions of the mapping: the loop over
\* mapping.items() stops at the first key that matches
First(S) == CHOOSE i \in S : \A j \in S : i <= j

\* the file of the key that is equal to name, else of the first key that
\* is contained in name, else "" for no file
MatchFile(exact, sub) ==
    IF exact # {} THEN mapping[First(exact)][2]
    ELSE IF sub # {} THEN mapping[First(sub)][2]
    ELSE ""

Lookup(name) ==
    MatchFile({i \in 1..Len(mapping) : mapping[i][1] = name},
              {i \in 1..Len(mapping) : IsSubstring(mapping[i][1], name)})

\* ExistingPath without the test of os.path.exists
ExistingPath_Unchecked(filename) ==
    IF filename = "" THEN None ELSE OrganPath(filename)

\* path if os.path.exists(path) else None
ExistingPath(filename) ==
    IF filename = "" THEN None
    ELSE IF filename \in OrganFiles THEN OrganPath(filename)
    ELSE None

get_static_organ_image(organ) ==
    IF ~Truthy(organ) THEN [raised |-> FALSE, v |-> None]
    ELSE IF organ.t # "str" THEN [raised |-> TRUE, v |-> None]
    ELSE [raised |-> FALSE, v |-> ExistingPath(Lookup(strip(lower(organ.s))))]

\* to_organ_url
to_organ_url(path) ==
    IF path.t = "none" THEN None
    ELSE [t |-> "url", mount |-> "/organs", rel |-> <<path.name>>]

\* to_original_url
to_original_url(path) ==
    [t |-> "url", mount |-> "/files", rel |-> <<path.dir, "images", path.page, path.img>>]

----------------------------------------------------------------------------
(* Document extractor *)

\* JoinPages with the pages without text left out
RECURSIVE JoinPages_SkipEmpty(_)
JoinPages_SkipEmpty(pages) ==
    IF pages = <<>> THEN <<>>
    ELSE IF Head(pages).text.t # "str" THEN JoinPages_SkipEmpty(Tail(pages))
    ELSE IF Len(pages) = 1 THEN Head(pages).text.s
    ELSE Head(pages).text.s \o <<"NL">> \o JoinPages_SkipEmpty(Tail(pages))

\* the page texts joined with line breaks; a page without text gives ""
RECURSIVE JoinPages(_)
JoinPages(pages) ==
    IF pages = <<>> THEN <<>>
    ELSE LET t == IF Head(pages).text.t = "str" THEN Head(pages).text.s ELSE <<>>
         IN  IF Len(pages) = 1 THEN t ELSE t \o <<"NL">> \o JoinPages(Tail(pages))

extract_text(doc) == Str(JoinPages(doc.pages))

\* ImagePath with one directory for the images of every session
ImagePath_Flat(session_id, page, img) ==
    [t |-> "path", dir |-> 0, page |-> page, img |-> img]

ImagePath(session_id, page, img) ==
    [t |-> "path", dir |-> session_id, page |-> page, img |-> img]

\* BASE_UPLOAD_DIR, where the uploaded documents are stored
UploadDir == -1

\* os.path.join(BASE_UPLOAD_DIR, filename)
PdfPath(filename) == [t |-> "path", dir |-> UploadDir, name |-> filename]

\* save_upload: the storage fs after contents was written at the path of
\* filename, in place of what was stored there
save_upload(filename, contents, fs) ==
    {f \in fs : f.path # PdfPath(filename)}
       \cup {[path |-> PdfPath(filename), doc |-> contents]}

\* the images of pages from..Len(pages), page by page, each with its size
RECURSIVE PageImages(_, _, _)
PageImages(pages, from, session_id) ==
    IF from > Len(pages) THEN <<>>
    ELSE [m \in 1..Len(pages[from].imgs) |->
            [path |-> ImagePath(session_id, from, m), size |-> pages[from].imgs[m]]]
         \o PageImages(pages, from + 1, session_id)

\* extract_images: the saved images in order, [path, size]
extract_images(doc, session_id) == PageImages(doc.pages, 1, session_id)

\* the size limit of upload_pdf
MinImageBytes == 1024

\* the filter loop of upload_pdf over the images from position i on;
\* fault[i] is the storage error met at image i: "getsize" (os.path.getsize
\* raises OSError), "remove" (os.remove raises OSError) or "none";
\* fs is the set of stored images
\* failed is the set of images at which the storage error was raised

\* IsLarge with the limit itself counted as large
IsLarge_AtLeast(size) == size >= MinImageBytes

\* size > 1024
IsLarge(size) == size > MinImageBytes

\* FilterLoop with the pass ended by the first storage error
RECURSIVE FilterLoop_Abort(_, _, _, _, _, _)
FilterLoop_Abort(imgs, fault, i, large, fs, failed) ==
    IF i > Len(imgs) THEN [large |-> large, fs |-> fs, failed |-> failed]
    ELSE IF fault[i] = "getsize"
         THEN [large |-> large, fs |-> fs, failed |-> failed \cup {imgs[i].path}]
    ELSE IF IsLarge(imgs[i].size)
         THEN FilterLoop_Abort(imgs, fault, i + 1, Append(large, imgs[i].path), fs, failed)
    ELSE IF fault[i] = "remove"
         THEN [large |-> large, fs |-> fs, failed |-> failed \cup {imgs[i].path}]
    ELSE FilterLoop_Abort(imgs, fault, i + 1, large, fs \ {imgs[i]}, failed)

RECURSIVE FilterLoop(_, _, _, _, _, _)
FilterLoop(imgs, fault, i, large, fs, failed) ==
    IF i > Len(imgs) THEN [large |-> large, fs |-> fs, failed |-> failed]
    ELSE IF fault[i] = "getsize"
         THEN FilterLoop(imgs, fault, i + 1, large, fs, failed \cup {imgs[i].path})
    ELSE IF IsLarge(imgs[i].size)
         THEN FilterLoop(imgs, fault, i + 1, Append(large, imgs[i].path), fs, failed)
    ELSE IF fault[i] = "remove"
         THEN FilterLoop(imgs, fault, i + 1, large, fs, failed \cup {imgs[i].path})
    ELSE FilterLoop(imgs, fault, i + 1, large, fs \ {imgs[i]}, failed)

----------------------------------------------------------------------------
(* Inputs *)

Languages == {"fr", "de"}

\* identifiers that uuid4 can return, and an identifier that it never returned
Uuids == 1..MaxSessions
RequestIds == 0..MaxSessions

Page(text, imgs) == [text |-> text, imgs |-> imgs]

\* a document: its pages and what is wrong with the file: "none", "text"
\* (PdfReader raises in extract_text) or "images" (fitz.open raises in
\* extract_images)
Doc(pages, damage) == [pages |-> pages, damage |-> damage]

\* two pages, an image of 2 KB and an image of 500 bytes, a page without text
DocScenario == Doc(<<Page(Str(<<"p1">>), <<2048>>), Page(None, <<500>>)>>, "none")
\* one page, images at the limit, just above it and well above it
DocBoundary == Doc(<<Page(Str(<<"p1">>), <<1024, 1025, 2048>>)>>, "none")

Docs == {DocScenario, DocBoundary}

\* files that one of the two readers cannot open
DamagedDocs == {Doc(DocScenario.pages, "text"), Doc(DocScenario.pages, "images")}

\* outcomes of a chat completion that is asked for a text
TextOutcomes ==
    {ConnError, OtherError, Reply(None),
     Reply(Str(<<" ">>)), Reply(Str(<<"t1", " ">>)), Reply(Str(<<"t2">>))}

\* outcomes of a chat completion that is asked for a list of references
RefOutcomes ==
    {ConnError, OtherError, Reply(None), Reply(Str(<<"NL">>)),
     Reply(Str(<<"r1", "NL", " ", "NL", "r2", " ", "http://x">>))}

Obj(members) == Reply(Str(<<"{">> \o members \o <<"}">>))

\* outcomes of a chat completion that is asked to classify an image
VisionOutcomes ==
    {ConnError, OtherError, Reply(None),
     Obj(<<"organ:heart", "labels:aorta">>),
     Reply(Str(<<Fence, "json", "NL", "{", "organ:Heart_", "}", "NL", Fence>>)),
     Reply(Str(<<"Sure", " ", "{", "labels:aorta", "}", " ", "done">>)),
     Reply(List(<<Dict([k \in {"text"} |-> Str(<<"{", "organ:knee">>)]),
                  Dict(<< >>),
                  Dict([k \in {"text"} |-> Str(<<"labels:null", "}">>)])>>)),
     Reply(Str(<<"no", " ", "json">>)),
     Obj(<<"organ:xray">>), Obj(<<"organ:empty">>), Obj(<<"organ:null">>),
     Obj(<<"organ:5">>), Obj(<<"organ:list">>), Obj(<<>>),
     Reply(Str(<<"[organ,labels]">>)), Reply(Str(<<"[1]">>)),
     Reply(Str(<<"'organ labels'">>)), Reply(Str(<<"'x'">>)),
     Reply(Str(<<"7">>)), Reply(Str(<<"null">>))}

\* what one image meets in label_images: can the file be read, and the outcome
VisionInputs ==
    {[readable |-> FALSE, o |-> ConnError]}
        \cup {[readable |-> TRUE, o |-> o] : o \in VisionOutcomes}

StorageFaults == {"none", "getsize", "remove"}

----------------------------------------------------------------------------
(* Request handlers of main.py *)

\* A request as it was handled: the handler, its session identifier and
\* language, the number of inference calls it made, what its inference
\* operations met (the outcomes of the text operations, or what each image
\* met in the labeling), the number of images it classified and the images
\* at which it met a storage error, the extraction that raised in an
\* upload ("" for none), and the images that an upload extracted.
Request(op, sid, lang, met) ==
    [op |-> op, sid |-> sid, lang |-> lang, infer |-> Len(met), met |-> met,
     classified |-> 0, oserror |-> {}, raised |-> "", extracted |-> <<>>]

Ok(body) == [status |-> 200, body |-> body]
\* JSONResponse(status_code=404, content={"error": "Invalid session_id"})
NotFound == [status |-> 404, body |-> [error |-> "Invalid session_id"]]
\* an exception that leaves the handler
ServerError == [status |-> 500, body |-> [error |-> "Internal Server Error"]]

\* SESSION_DATA.get(session_id) is None; a stored session is a non-empty dict
Unknown(session_id) == session_id \notin DOMAIN SESSION_DATA

\* SESSION_DATA[session_id] = data
\* Store with the other sessions dropped from the table
Store_Only(session_id, data) == [s \in {session_id} |-> data]

\* SESSION_DATA[session_id] = data
Store(session_id, data) ==
    [s \in (DOMAIN SESSION_DATA) \cup {session_id} |->
        IF s = session_id THEN data ELSE SESSION_DATA[s]]

\* Reject with the status code left out of the answer
Reject_NoStatus(op, session_id, lang) ==
    /\ Unknown(session_id)
    /\ response' = Ok([error |-> "Invalid session_id"])
    /\ last' = Request(op, session_id, lang, <<>>)
    /\ UNCHANGED <<SESSION_DATA, files, calls>>

\* the answer to a request for a session that is not in the table
Reject(op, session_id, lang) ==
    /\ Unknown(session_id)
    /\ response' = NotFound
    /\ last' = Request(op, session_id, lang, <<>>)
    /\ UNCHANGED <<SESSION_DATA, files, calls>>

\* NewIds with an identifier that may be in the table already
NewIds_Any(table) == Uuids

\* str(uuid.uuid4()): an identifier that is not in the table
NewIds(table) == Uuids \ DOMAIN table

\* UploadRaises with the session stored before the extraction
UploadRaises_Stored(session_id, met, at, fs) ==
    /\ response' = ServerError
    /\ last' = [Request("upload", session_id, "", met) EXCEPT !.raised = at]
    /\ calls' = calls + Len(met)
    /\ SESSION_DATA' = Store(session_id,
           [pdf_path |-> PdfPath("a.pdf"), text |-> Str(<<>>), summary |-> Str(<<>>),
            images |-> <<>>, translations |-> << >>, details |-> None,
            references |-> None, labeled |-> <<>>])
    /\ files' = fs

\* an upload in which the extraction at raises, after the inference calls
\* that met the outcomes met: the exception leaves the handler before
\* SESSION_DATA is assigned; fs is the storage after save_upload
UploadRaises(session_id, met, at, fs) ==
    /\ response' = ServerError
    /\ last' = [Request("upload", session_id, "", met) EXCEPT !.raised = at]
    /\ calls' = calls + Len(met)
    /\ files' = fs
    /\ UNCHANGED SESSION_DATA

upload_pdf(I, filename, doc, o, fault) ==
    /\ Cardinality(DOMAIN SESSION_DATA) < MaxSessions
    /\ calls < I.maxCalls
    /\ \E session_id \in NewIds(SESSION_DATA) :
         IF doc.damage = "text"
         THEN UploadRaises(session_id, <<>>, "extract_text",
                           save_upload(filename, doc, files))
         ELSE IF doc.damage = "images"
              THEN UploadRaises(session_id, <<o>>, "extract_images",
                                save_upload(filename, doc, files))
         ELSE
         LET text == extract_text(doc)
             summary == summarize_text(o)
             image_paths == extract_images(doc, session_id)
             saved == save_upload(filename, doc, files)
                         \cup {image_paths[i] : i \in 1..Len(image_paths)}
             kept == FilterLoop(image_paths, fault, 1, <<>>, saved, {})
         IN  /\ SESSION_DATA' = Store(session_id,
                    [pdf_path |-> PdfPath(filename),
                     text |-> text,
                     summary |-> summary,
                     images |-> kept.large,
                     translations |-> << >>,
                     details |-> None,
                     references |-> None,
                     labeled |-> <<>>])
             /\ files' = kept.fs
             /\ calls' = calls + 1
             /\ last' = [Request("upload", session_id, "", <<o>>)
                            EXCEPT !.oserror = kept.failed,
                                   !.extracted = image_paths]
             /\ response' = Ok([session_id |-> session_id,
                                summary |-> summary,
                                image_count |-> Len(kept.large)])

get_summary(session_id) ==
    \/ Reject("summary", session_id, "")
    \/ /\ ~Unknown(session_id)
       /\ response' = Ok([summary |-> SESSION_DATA[session_id].summary])
       /\ last' = Request("summary", session_id, "", <<>>)
       /\ UNCHANGED <<SESSION_DATA, files, calls>>

\* TranslationMissing as a test of the stored text instead of the key
TranslationMissing_Falsy(data, language) ==
    \/ language \notin DOMAIN data.translations
    \/ ~Truthy(data.translations[language])

\* language not in data["translations"]
TranslationMissing(data, language) == language \notin DOMAIN data.translations

get_translation(I, session_id, language) ==
    \/ Reject("translate", session_id, language)
    \/ /\ ~Unknown(session_id)
       /\ LET data == SESSION_DATA[session_id]
          IN  IF TranslationMissing(data, language)
              THEN /\ calls < I.maxCalls
                   /\ \E o \in I.text :
                        LET v == translate_summary(o, language)
                        IN  /\ SESSION_DATA' = Store(session_id,
                                  [data EXCEPT !.translations =
                                      [l \in (DOMAIN data.translations) \cup {language} |->
                                          IF l = language THEN v ELSE data.translations[l]]])
                            /\ response' = Ok([language |-> language, summary |-> v])
                            /\ last' = Request("translate", session_id, language, <<o>>)
                   /\ calls' = calls + 1
              ELSE /\ response' = Ok([language |-> language,
                                      summary |-> data.translations[language]])
                   /\ last' = Request("translate", session_id, language, <<>>)
                   /\ UNCHANGED <<SESSION_DATA, calls>>
       /\ UNCHANGED files

\* SlotEmpty with a stored failure counted as empty
SlotEmpty_OrFailed(value) ==
    \/ ~Truthy(value)
    \/ value.t = "str" /\ startswith(value.s, ErrorPrefix)
    \/ value.t = "list" /\ Len(value.l) = 1 /\ startswith(value.l[1].s, ErrorPrefix)

\* not data["details"], not data["references"]
SlotEmpty(value) == ~Truthy(value)

get_details(I, session_id) ==
    \/ Reject("details", session_id, "")
    \/ /\ ~Unknown(session_id)
       /\ LET data == SESSION_DATA[session_id]
          IN  IF SlotEmpty(data.details)
              THEN /\ calls < I.maxCalls
                   /\ \E o \in I.text :
                        LET v == generate_detailed_text(o)
                        IN  /\ SESSION_DATA' = Store(session_id, [data EXCEPT !.details = v])
                            /\ response' = Ok([details |-> v])
                            /\ last' = Request("details", session_id, "", <<o>>)
                   /\ calls' = calls + 1
              ELSE /\ response' = Ok([details |-> data.details])
                   /\ last' = Request("details", session_id, "", <<>>)
                   /\ UNCHANGED <<SESSION_DATA, calls>>
       /\ UNCHANGED files

translate_details(I, session_id, language) ==
    \/ Reject("details/translate", session_id, language)
    \/ /\ ~Unknown(session_id)
       /\ LET data == SESSION_DATA[session_id]
              n == IF SlotEmpty(data.details) THEN 2 ELSE 1
          IN  /\ calls + n <= I.maxCalls
              /\ \E o1 \in (IF n = 2 THEN I.text ELSE {ConnError}), o2 \in I.text :
                   LET details == IF SlotEmpty(data.details)
                                  THEN generate_detailed_text(o1)
                                  ELSE data.details
                       translated_details == translate_summary(o2, language)
                   IN  /\ SESSION_DATA' = Store(session_id, [data EXCEPT !.details = details])
                       /\ response' = Ok([language |-> language,
                                          details |-> translated_details])
                       /\ last' = Request("details/translate", session_id, language,
                                          IF n = 2 THEN <<o1, o2>> ELSE <<o2>>)
              /\ calls' = calls + n
       /\ UNCHANGED files

get_refs(I, session_id) ==
    \/ Reject("references", session_id, "")
    \/ /\ ~Unknown(session_id)
       /\ LET data == SESSION_DATA[session_id]
          IN  IF SlotEmpty(data.references)
              THEN /\ calls < I.maxCalls
                   /\ \E o \in I.refs :
                        LET v == generate_references(o)
                        IN  /\ SESSION_DATA' = Store(session_id, [data EXCEPT !.references = v])
                            /\ response' = Ok([references |-> v])
                            /\ last' = Request("references", session_id, "", <<o>>)
                   /\ calls' = calls + 1
              ELSE /\ response' = Ok([references |-> data.references])
                   /\ last' = Request("references", session_id, "", <<>>)
                   /\ UNCHANGED <<SESSION_DATA, calls>>
       /\ UNCHANGED files

get_images(session_id) ==
    \/ Reject("images", session_id, "")
    \/ /\ ~Unknown(session_id)
       /\ response' = Ok([images |-> SESSION_DATA[session_id].images,
                          labeled |-> SESSION_DATA[session_id].labeled])
       /\ last' = Request("images", session_id, "", <<>>)
       /\ UNCHANGED <<SESSION_DATA, files, calls>>

\* dict.get(key, default); a value that is not a dict has no get
PyGet(d, key, default) == IF key \in DOMAIN d.d THEN d.d[key] ELSE default

\* one entry of labeled_outputs: [raised, entry]; raised when
\* get_static_organ_image raises
EntryOf(image, organ, labels, static_organ_path) ==
    IF static_organ_path.raised THEN [raised |-> TRUE, entry |-> None]
    ELSE [raised |-> FALSE,
          entry |-> [original |-> to_original_url(image),
                     organ |-> organ,
                     labels |-> labels,
                     labeled_image |-> static_organ_path.v,
                     labeled_image_url |-> to_organ_url(static_organ_path.v),
                     image_generation_status |->
                        IF Truthy(static_organ_path.v) THEN "ok" ELSE "not_found"]]

\* the body of the loop of label_images for one image; raised when
\* organ_info has no get (it is not a dict) or EntryOf raises
LabelEntry(image, organ_info) ==
    IF organ_info.t # "dict" THEN [raised |-> TRUE, entry |-> None]
    ELSE EntryOf(image,
                 PyGet(organ_info, "organ", Str(<<"unknown">>)),
                 PyGet(organ_info, "labels", List(<<>>)),
                 get_static_organ_image(PyGet(organ_info, "organ", Str(<<"unknown">>))))

\* the loop of label_images over the images from position i on: inp[i] is
\* what image i meets, out the entries so far, n the inference calls so far;
\* the result tells whether the loop raised and at which image
RECURSIVE LabelLoop(_, _, _, _, _)
LabelStep(images, inp, i, out, n, e) ==
    IF e.raised THEN [raised |-> TRUE, out |-> out, n |-> n, at |-> i]
    ELSE LabelLoop(images, inp, i + 1, Append(out, e.entry), n)

LabelLoop(images, inp, i, out, n) ==
    IF i > Len(images) THEN [raised |-> FALSE, out |-> out, n |-> n, at |-> i]
    ELSE LabelStep(images, inp, i, out,
                   IF inp[i].readable THEN n + 1 ELSE n,
                   LabelEntry(images[i], identify_organ(inp[i].readable, inp[i].o)))

\* the end of label_images: inp is what the images met, r the result of
\* the loop
LabelAnswer(I, session_id, data, inp, r) ==
    /\ calls + r.n <= I.maxCalls
    /\ calls' = calls + r.n
    /\ last' = [Request("images/label", session_id, "", inp)
                   EXCEPT !.infer = r.n,
                          !.classified = IF r.raised THEN r.at ELSE Len(data.images)]
    /\ IF r.raised
       THEN /\ response' = ServerError
            /\ UNCHANGED SESSION_DATA
       ELSE /\ SESSION_DATA' = Store(session_id, [data EXCEPT !.labeled = r.out])
            /\ response' = Ok([results |-> r.out])

label_images(I, session_id) ==
    \/ Reject("images/label", session_id, "")
    \/ /\ ~Unknown(session_id)
       /\ \E inp \in [1..Len(SESSION_DATA[session_id].images) -> I.vision] :
            LabelAnswer(I, session_id, SESSION_DATA[session_id], inp,
                        LabelLoop(SESSION_DATA[session_id].images, inp, 1, <<>>, 0))
       /\ UNCHANGED files

\* identify_organ_with_static_image: [raised, v]; raised when organ_info
\* has no get or get_static_organ_image raises
StaticImageInfo(organ, labels, static_image_path) ==
    IF static_image_path.raised THEN [raised |-> TRUE, v |-> None]
    ELSE [raised |-> FALSE,
          v |-> [organ |-> organ, labels |-> labels,
                 static_image_path |-> static_image_path.v]]

identify_organ_with_static_image(organ_info) ==
    IF organ_info.t # "dict" THEN [raised |-> TRUE, v |-> None]
    ELSE StaticImageInfo(PyGet(organ_info, "organ", Str(<<"unknown">>)),
                         PyGet(organ_info, "labels", List(<<>>)),
                         get_static_organ_image(PyGet(organ_info, "organ", Str(<<"unknown">>))))

\* the directory single_images of BASE_UPLOAD_DIR, which is no session
\* identifier
SingleImageDir == 0
SingleImageBytes == 500

SinglePath(name) == [t |-> "path", dir |-> SingleImageDir, page |-> 0, img |-> name]

\* to_original_url of an image of single_images
SingleUrl(path) == [t |-> "url", mount |-> "/files", rel |-> <<"single_images", path.img>>]

\* the answer of identify_organ_image
IdentifyAnswer(image_path, organ_info) ==
    IF organ_info.raised THEN ServerError
    ELSE Ok([organ |-> organ_info.v.organ,
             labels |-> organ_info.v.labels,
             original_image |-> SingleUrl(image_path),
             detailed_image |-> organ_info.v.static_image_path,
             detailed_image_url |-> to_organ_url(organ_info.v.static_image_path),
             image_generation_status |->
                IF Truthy(organ_info.v.static_image_path) THEN "ok" ELSE "not_found"])

\* identify_organ_image: the uploaded image is saved under a new name, then
\* classified; inp is what the saved image meets
identify_organ_image(I, inp) ==
    /\ calls + (IF inp.readable THEN 1 ELSE 0) <= I.maxCalls
    /\ \E name \in Uuids :
          /\ \A f \in files : f.path # SinglePath(name)
          /\ files' = files \cup {[path |-> SinglePath(name), size |-> SingleImageBytes]}
          /\ response' = IdentifyAnswer(SinglePath(name),
                             identify_organ_with_static_image(
                                 identify_organ(inp.readable, inp.o)))
    /\ calls' = calls + (IF inp.readable THEN 1 ELSE 0)
    /\ last' = [Request("identify-organ-image", 0, "", <<inp>>)
                   EXCEPT !.infer = IF inp.readable THEN 1 ELSE 0]
    /\ UNCHANGED SESSION_DATA

----------------------------------------------------------------------------
(* Specifications *)

Filenames == {"a.pdf", "b.pdf"}

Init ==
    /\ SESSION_DATA = << >>
    /\ files = {}
    /\ calls = 0
    /\ last = Request("start", 0, "", <<>>)
    /\ response = Ok([started |-> TRUE])

UploadOf(I) ==
    \E filename \in I.filenames, doc \in I.docs, o \in I.summary :
        \E fault \in [1..Len(extract_images(doc, 0)) -> I.faults] :
            upload_pdf(I, filename, doc, o, fault)

SummaryOf(I) == \E session_id \in RequestIds : get_summary(session_id)

TranslateOf(I) == \E session_id \in RequestIds, language \in I.languages :
                    get_translation(I, session_id, language)

DetailsOf(I) == \E session_id \in RequestIds : get_details(I, session_id)

TranslateDetailsOf(I) == \E session_id \in RequestIds, language \in I.languages :
                            translate_details(I, session_id, language)

RefsOf(I) == \E session_id \in RequestIds : get_refs(I, session_id)

ImagesOf(I) == \E session_id \in RequestIds : get_images(session_id)

LabelOf(I) == \E session_id \in RequestIds : label_images(I, session_id)

IdentifyOf(I) == \E inp \in I.vision : identify_organ_image(I, inp)

\* The artifact cache: every outcome of the text operations, one document,
\* no storage error, three outcomes of the classification.
CacheInputs ==
    [maxCalls |-> MaxCalls,
     filenames |-> {"a.pdf"},
     languages |-> Languages,
     docs |-> {DocScenario},
     faults |-> {"none"},
     summary |-> {ConnError, Reply(Str(<<"t1", " ">>))},
     text |-> TextOutcomes,
     refs |-> RefOutcomes,
     vision |-> {[readable |-> TRUE, o |-> ConnError],
                 [readable |-> TRUE, o |-> Obj(<<"organ:heart", "labels:aorta">>)]}]

Upload == UploadOf(CacheInputs)
Summary == SummaryOf(CacheInputs)
Translate == TranslateOf(CacheInputs)
Details == DetailsOf(CacheInputs)
TranslateDetails == TranslateDetailsOf(CacheInputs)
Refs == RefsOf(CacheInputs)
Images == ImagesOf(CacheInputs)
Label == LabelOf(CacheInputs)

Next ==
    \/ Upload
    \/ Summary
    \/ Translate
    \/ Details
    \/ TranslateDetails
    \/ Refs
    \/ Images
    \/ Label

Spec == Init /\ [][Next]_vars

\* what an image meets in the labeling: one input of every kind of result
LabelVision ==
    {[readable |-> FALSE, o |-> ConnError]}
        \cup {[readable |-> TRUE, o |-> o] :
                o \in {ConnError,
                       Obj(<<"organ:heart", "labels:aorta">>),
                       Reply(Str(<<"no", " ", "json">>)),
                       Obj(<<>>), Obj(<<"organ:null">>), Obj(<<"organ:5">>),
                       Reply(Str(<<"[organ,labels]">>))}}

\* The labeling: every kind of result of the classification at every image,
\* a document that leaves two images, one outcome of each text operation.
LabelInputs ==
    [maxCalls |-> MaxLabelCalls,
     filenames |-> {"a.pdf"},
     languages |-> {"fr"},
     docs |-> {DocBoundary},
     faults |-> {"none"},
     summary |-> {Reply(Str(<<"t1">>))},
     text |-> {Reply(Str(<<"t1">>))},
     refs |-> {Reply(Str(<<"r1">>))},
     vision |-> LabelVision]

LUpload == UploadOf(LabelInputs)
LSummary == SummaryOf(LabelInputs)
LTranslate == TranslateOf(LabelInputs)
LDetails == DetailsOf(LabelInputs)
LTranslateDetails == TranslateDetailsOf(LabelInputs)
LRefs == RefsOf(LabelInputs)
LImages == ImagesOf(LabelInputs)
LLabel == LabelOf(LabelInputs)

NextLabel ==
    \/ LUpload
    \/ LSummary
    \/ LTranslate
    \/ LDetails
    \/ LTranslateDetails
    \/ LRefs
    \/ LImages
    \/ LLabel

SpecLabel == Init /\ [][NextLabel]_vars

\* The uploads: every document, every storage error at every image, one
\* outcome of each inference operation.
UploadInputs ==
    [maxCalls |-> MaxUploadCalls,
     filenames |-> {"a.pdf"},
     languages |-> {"fr"},
     docs |-> Docs,
     faults |-> StorageFaults,
     summary |-> {Reply(Str(<<"t1">>))},
     text |-> {ConnError},
     refs |-> {ConnError},
     vision |-> {[readable |-> TRUE, o |-> ConnError]}]

UUpload == UploadOf(UploadInputs)
USummary == SummaryOf(UploadInputs)
UImages == ImagesOf(UploadInputs)
ULabel == LabelOf(UploadInputs)

\* the handlers that write or read the stored images and the result of the
\* upload
NextUpload ==
    \/ UUpload
    \/ USummary
    \/ UImages
    \/ ULabel

SpecUpload == Init /\ [][NextUpload]_vars

\* Every handler, the upload of damaged files included: what a request may
\* write. One outcome of each text operation, a classification that works
\* and one that makes the request raise.
MaxFrameCalls == 3

FrameInputs ==
    [maxCalls |-> MaxFrameCalls,
     filenames |-> {"a.pdf"},
     languages |-> {"fr"},
     docs |-> Docs \cup DamagedDocs,
     faults |-> {"none"},
     summary |-> {Reply(Str(<<"t1">>))},
     text |-> {Reply(Str(<<"t2">>))},
     refs |-> {Reply(Str(<<"r1">>))},
     vision |-> {[readable |-> TRUE, o |-> Obj(<<"organ:heart", "labels:aorta">>)],
                 [readable |-> TRUE, o |-> Obj(<<"organ:5">>)]}]

FUpload == UploadOf(FrameInputs)
FSummary == SummaryOf(FrameInputs)
FTranslate == TranslateOf(FrameInputs)
FDetails == DetailsOf(FrameInputs)
FTranslateDetails == TranslateDetailsOf(FrameInputs)
FRefs == RefsOf(FrameInputs)
FImages == ImagesOf(FrameInputs)
FLabel == LabelOf(FrameInputs)
FIdentify == IdentifyOf(FrameInputs)

NextFrame ==
    \/ FUpload
    \/ FSummary
    \/ FTranslate
    \/ FDetails
    \/ FTranslateDetails
    \/ FRefs
    \/ FImages
    \/ FLabel
    \/ FIdentify

SpecFrame == Init /\ [][NextFrame]_vars

\* Uploads under both filenames of every document, the damaged files
\* included, and the requests that read a session back: what is stored for
\* a session's document.
MaxSourceCalls == 3

SourceInputs ==
    [maxCalls |-> MaxSourceCalls,
     filenames |-> Filenames,
     languages |-> {"fr"},
     docs |-> Docs \cup DamagedDocs,
     faults |-> {"none"},
     summary |-> {Reply(Str(<<"t1">>))},
     text |-> {Reply(Str(<<"t2">>))},
     refs |-> {Reply(Str(<<"r1">>))},
     vision |-> {[readable |-> TRUE, o |-> Obj(<<"organ:heart", "labels:aorta">>)]}]

SUpload == UploadOf(SourceInputs)
SSummary == SummaryOf(SourceInputs)
SImages == ImagesOf(SourceInputs)

NextSource ==
    \/ SUpload
    \/ SSummary
    \/ SImages

SpecSource == Init /\ [][NextSource]_vars

\* The functions of ai_utils.py and pdf_utils.py alone: one call of one
\* function on one input; and the start of the application, which imports
\* config.py and ai_utils.py, followed by its first request.
MaxTokens == 3
MaxLabelLen == 3
MaxSanitizeLen == 4
MaxPages == 3

ClassifyTokens ==
    {"{", "}", Fence, " ", "x", "organ:heart", "organ:5", "labels:aorta",
     "[organ,labels]", "'organ labels'"}

ClassifyTexts == UNION {[1..n -> ClassifyTokens] : n \in 0..MaxTokens}

ClassifyInputs ==
    VisionInputs \cup {[readable |-> TRUE, o |-> Reply(Str(t))] : t \in ClassifyTexts}

Pending == [status |-> 0, body |-> [pending |-> TRUE]]

Call(op, arg) == [op |-> op, arg |-> arg]

\* organ names: every short text over a few characters, and longer names
LabelChars == {"H", "h", "e", "a", "r", "t", "s", " "}

NamedLabels ==
    {heart, <<"H", "e", "a", "r", "t">>, <<" ">> \o heart \o <<" ", "NL">>,
     <<"H", "u", "m", "a", "n", " ", "H", "e", "a", "r", "t">>,
     <<"h", "u", "m", "a", "n", " ", "h", "e", "a", "r", "t", " ">>,
     heart \o <<"s">>,
     <<"e", "a", "r">>, <<"e", "a", "r", "s">>, <<"e", "a", "r", " ">>,
     <<"l", "u", "n", "g">>, <<"l", "u", "n", "g", "s">>,
     <<"l", "u", "n", "g", " ", "h", "e", "a", "r", "t">>,
     <<"k", "n", "e", "e">>, <<"k", "n", "e", "e", "s">>,
     <<"u", "n", "k", "n", "o", "w", "n">>,
     <<"u", "n", "k", "n", "o", "w", "n", " ", "t", "i", "s", "s", "u", "e", " ",
       "t", "y", "p", "e">>,
     <<" ">>, <<>>}

ResolveLabels ==
    NamedLabels \cup UNION {[1..n -> LabelChars] : n \in 0..MaxLabelLen}

ResolveInputs ==
    {Str(l) : l \in ResolveLabels} \cup {None, Num(5), List(<<>>), List(<<Str(heart)>>)}

\* texts of a reply: fences, braces, white space and other text
SanitizeTokens == {"{", "}", Fence, " ", "NL", "x"}

SanitizeTexts == UNION {[1..n -> SanitizeTokens] : n \in 0..MaxSanitizeLen}

\* lists of references, with no, one and two URLs in a line
UrlTokens == {"http://x", "http://y"}

RefLine1 == Str(<<"r1", " ", "http://x">>)
RefLine2 == Str(<<"r2">>)
RefLine3 == Str(<<"r3", " ", "http://x", " ", "see", " ", "http://y">>)

RefLists ==
    {<<>>, <<RefLine1>>, <<RefLine2>>, <<RefLine1, RefLine2>>, <<RefLine2, RefLine3>>}

\* outcomes of the chat completion that is asked to translate references:
\* failures, a translation that keeps the lines and the URLs of RefLine1 and
\* RefLine2, and translations that drop a URL or a line or add a blank line
RefTranslations ==
    {ConnError, OtherError, Reply(None),
     Reply(Str(<<"R1", " ", "http://x", "NL", "R2">>)),
     Reply(Str(<<"R1", " ", "http://x", "NL", " ", "NL", "R2">>)),
     Reply(Str(<<"R1", "NL", "R2">>)),
     Reply(Str(<<"R1", " ", "http://x">>)),
     Reply(Str(<<"R2">>))}

\* what page.extract_text() returns: nothing, the empty text, a line, lines
PageTexts == {None, Str(<<>>), Str(<<"p1">>), Str(<<"p2", "NL", "p3">>)}

ExtractDocs ==
    UNION {{Doc([i \in 1..n |-> Page(texts[i], <<>>)], "none") :
               texts \in [1..n -> PageTexts]} : n \in 0..MaxPages}

\* the settings that config.py reads from the environment without a default,
\* each of which becomes "" when it is not set
Settings == {"AZURE_OPENAI_ENDPOINT", "AZURE_OPENAI_API_KEY",
             "AZURE_OPENAI_CHAT_DEPLOYMENT", "AZURE_OPENAI_VISION_DEPLOYMENT"}

\* the settings that the constructor of the client is given
ClientSettings == {"AZURE_OPENAI_ENDPOINT", "AZURE_OPENAI_API_KEY"}

AdapterCalls ==
    {Call("identify_organ", inp) : inp \in ClassifyInputs}
        \cup {Call("get_static_organ_image", organ) : organ \in ResolveInputs}
        \cup {Call("_extract_json_object", text) : text \in SanitizeTexts}
        \cup {Call("extract_text", doc) : doc \in ExtractDocs}
        \cup {Call("startup", [missing |-> missing]) : missing \in SUBSET Settings}
        \cup {Call("translate_references", [refs |-> refs, language |-> language, o |-> o]) :
                 refs \in RefLists, language \in Languages, o \in RefTranslations}

\* an exception that leaves the function
Raised == [status |-> 500, body |-> [raised |-> TRUE]]

InitAdapter ==
    /\ SESSION_DATA = << >>
    /\ files = {}
    /\ calls = 0
    /\ last \in AdapterCalls
    /\ response = Pending

ResolveResult(r) == IF r.raised THEN Raised ELSE Ok(r.v)

Resolve ==
    /\ last.op = "get_static_organ_image"
    /\ response = Pending
    /\ response' = ResolveResult(get_static_organ_image(last.arg))
    /\ UNCHANGED <<SESSION_DATA, files, calls, last>>

Classify ==
    /\ last.op = "identify_organ"
    /\ response = Pending
    /\ response' = Ok(identify_organ(last.arg.readable, last.arg.o))
    /\ UNCHANGED <<SESSION_DATA, files, calls, last>>

Sanitize ==
    /\ last.op = "_extract_json_object"
    /\ response = Pending
    /\ response' = Ok(Str(_extract_json_object(last.arg)))
    /\ UNCHANGED <<SESSION_DATA, files, calls, last>>

TranslateRefs ==
    /\ last.op = "translate_references"
    /\ response = Pending
    /\ response' = Ok(translate_references(last.arg.refs, last.arg.language, last.arg.o))
    /\ UNCHANGED <<SESSION_DATA, files, calls, last>>

ExtractText ==
    /\ last.op = "extract_text"
    /\ response = Pending
    /\ response' = Ok(extract_text(last.arg))
    /\ UNCHANGED <<SESSION_DATA, files, calls, last>>

\* the application serves requests
Started == Ok([started |-> TRUE])

\* the import of config.py and ai_utils.py: config.py replaces a setting that
\* is not set by "" and tests nothing; the client is constructed with the
\* "" of a missing endpoint or key, which the constructor of the library may
\* accept or refuse; the deployment names are not used before a request
Startup ==
    /\ last.op = "startup"
    /\ response = Pending
    /\ \/ response' = Started
       \/ /\ last.arg.missing \cap ClientSettings # {}
          /\ response' = Raised
    /\ UNCHANGED <<SESSION_DATA, files, calls, last>>

\* what the chat completion of summarize_text can meet: with a setting of
\* the client or the chat deployment missing the call cannot succeed
SummaryOutcomes(missing) ==
    IF missing \cap (ClientSettings \cup {"AZURE_OPENAI_CHAT_DEPLOYMENT"}) # {}
    THEN {ConnError, OtherError}
    ELSE TextOutcomes

\* the first request of the started application, a summary
FirstRequest ==
    /\ last.op = "startup"
    /\ response = Started
    /\ \E o \in SummaryOutcomes(last.arg.missing) :
          /\ last' = Call("summarize_text", [missing |-> last.arg.missing, o |-> o])
          /\ response' = Ok(summarize_text(o))
    /\ UNCHANGED <<SESSION_DATA, files, calls>>

NextAdapter ==
    \/ Classify
    \/ Resolve
    \/ Sanitize
    \/ TranslateRefs
    \/ ExtractText
    \/ Startup
    \/ FirstRequest

SpecAdapter == InitAdapter /\ [][NextAdapter]_vars

----------------------------------------------------------------------------
(* Claims *)

Sessions == DOMAIN SESSION_DATA

\* the handlers that take a session identifier
KeyedOps == {"summary", "translate", "details", "details/translate",
             "references", "images", "images/label"}

\* C1: for every session and every key among translation(language), details
\* and references, the computation of the key is invoked at most once: a
\* request that arrives when a value is stored for the key (a language that
\* is in translations, a details or references slot that is not None) makes
\* no inference call for that key.
C1_AtMostOneComputation ==
    [][\A sid \in Sessions :
          LET data == SESSION_DATA[sid]
          IN  /\ (last'.sid = sid /\ last'.op = "translate"
                     /\ last'.lang \in DOMAIN data.translations)
                    => calls' = calls
              /\ (last'.sid = sid /\ last'.op = "details" /\ data.details # None)
                    => calls' = calls
              /\ (last'.sid = sid /\ last'.op = "details/translate"
                     /\ data.details # None)
                    => calls' <= calls + 1
              /\ (last'.sid = sid /\ last'.op = "references"
                     /\ data.references # None)
                    => calls' = calls]_vars

\* C2: once translations[L] is set it is never changed or removed by a later
\* request, and a later translation request for L returns that value without
\* an inference call.
C2_TranslationsAdditive ==
    [][\A sid \in Sessions :
          \A L \in DOMAIN SESSION_DATA[sid].translations :
              /\ sid \in DOMAIN SESSION_DATA'
              /\ L \in DOMAIN SESSION_DATA'[sid].translations
              /\ SESSION_DATA'[sid].translations[L] = SESSION_DATA[sid].translations[L]
              /\ (last'.op = "translate" /\ last'.sid = sid /\ last'.lang = L)
                    => /\ response' = Ok([language |-> L,
                                          summary |-> SESSION_DATA[sid].translations[L]])
                       /\ calls' = calls]_vars

\* a translation request was served from the cache of a session that holds
\* a translation for every language
C2_Witness ==
    /\ last.op = "translate"
    /\ last.infer = 0
    /\ last.sid \in Sessions
    /\ DOMAIN SESSION_DATA[last.sid].translations = Languages
    /\ response.status = 200

\* C3: the summary, details and references slots change only from absent to
\* a stored value: a slot that holds a value (None is absent; an empty text
\* and an empty list are values) is not changed by any request.
C3_SlotsMonotonic ==
    [][\A sid \in Sessions :
          /\ sid \in DOMAIN SESSION_DATA'
          /\ SESSION_DATA'[sid].summary = SESSION_DATA[sid].summary
          /\ SESSION_DATA[sid].details # None
                => SESSION_DATA'[sid].details = SESSION_DATA[sid].details
          /\ SESSION_DATA[sid].references # None
                => SESSION_DATA'[sid].references = SESSION_DATA[sid].references]_vars

\* C4: two successive requests for one artifact key of one session, with no
\* request in between, return the identical value, and the second one makes
\* no inference call.
C4_Idempotent ==
    [][(/\ last.op \in {"summary", "translate", "details", "references"}
        /\ last.sid \in Sessions
        /\ last'.op = last.op
        /\ last'.sid = last.sid
        /\ last'.lang = last.lang)
          => (response' = response /\ calls' = calls)]_vars

\* C5: a request of a keyed handler with an identifier that is not in the
\* session table returns the not-found answer, makes no inference call and
\* leaves the table as it is.
C5_UnknownSession ==
    [][(last'.op \in KeyedOps /\ last'.sid \notin Sessions)
          => /\ response' = NotFound
             /\ calls' = calls
             /\ SESSION_DATA' = SESSION_DATA]_vars

\* a labeling request with an unknown identifier was answered while the
\* table holds a session
C5_Witness ==
    /\ last.op = "images/label"
    /\ last.sid \notin Sessions
    /\ Sessions # {}
    /\ response = NotFound

\* extraction order: by page, then by position in the page
Before(p, q) == p.page < q.page \/ (p.page = q.page /\ p.img < q.img)

InImages(sid, path) ==
    \E i \in 1..Len(SESSION_DATA[sid].images) : SESSION_DATA[sid].images[i] = path

\* the images of a session are stored files of more than 1024 bytes, in
\* extraction order
C6_Kept ==
    \A sid \in Sessions :
        LET images == SESSION_DATA[sid].images
        IN  /\ \A i \in 1..Len(images) :
                  \E f \in files : f.path = images[i] /\ f.size > 1024
            /\ \A i, j \in 1..Len(images) : i < j => Before(images[i], images[j])

\* C6 as stated: in every reachable state every entry of images is a stored
\* file of more than 1024 bytes, the entries keep the extraction order, and
\* every extracted image that is not in images has been removed from storage.
C6_ImageFilter ==
    /\ C6_Kept
    /\ \A sid \in Sessions :
          \A f \in files : f.path.dir = sid => InImages(sid, f.path)

\* an upload leaves in storage, outside images, only images at which it met a
\* storage error; no request touches the stored images of an existing session
C6_Step ==
    /\ \A f \in files' :
          (last'.op = "upload" /\ f.path.dir = last'.sid /\ last'.sid \notin Sessions)
             => \/ \E i \in 1..Len(SESSION_DATA'[last'.sid].images) :
                      SESSION_DATA'[last'.sid].images[i] = f.path
                \/ f.path \in last'.oserror
    /\ \A sid \in Sessions :
          /\ SESSION_DATA'[sid].images = SESSION_DATA[sid].images
          /\ {f \in files' : f.path.dir = sid} = {f \in files : f.path.dir = sid}

\* C6 as amended: as C6, except that an extracted image that is not in images
\* has been removed from storage unless inspecting its size or deleting it
\* failed with a storage error.
C6_ImageFilterBestEffort == []C6_Kept /\ [][C6_Step]_vars

\* an upload of the document with images of 1024, 1025 and 2048 bytes that
\* removed the first, could not inspect the second and kept the third
C6_Witness ==
    /\ last.op = "upload"
    /\ last.sid \in Sessions
    /\ SESSION_DATA[last.sid].images = <<ImagePath(last.sid, 1, 3)>>
    /\ last.oserror = {ImagePath(last.sid, 1, 2)}
    /\ \A f \in files : f.path # ImagePath(last.sid, 1, 1)
    /\ [path |-> ImagePath(last.sid, 1, 2), size |-> 1025] \in files

\* the labeled slot is the initial empty list or has one entry per stored
\* image, in image order
C7_LabeledComplete ==
    \A sid \in Sessions :
        LET images == SESSION_DATA[sid].images
            labeled == SESSION_DATA[sid].labeled
        IN  \/ labeled = <<>>
            \/ /\ Len(labeled) = Len(images)
               /\ \A i \in 1..Len(images) :
                     labeled[i].original = to_original_url(images[i])

\* C7: every labeling request on an existing session classifies every stored
\* image once, whatever labels are stored, and replaces the labeled slot with
\* one entry per stored image, in image order, which it returns; in every
\* reachable state the labeled slot is the initial empty list or such a
\* complete list.
C7_LabelRecomputes ==
    /\ []C7_LabeledComplete
    /\ [][(last'.op = "images/label" /\ last'.sid \in Sessions)
          => LET images == SESSION_DATA[last'.sid].images
                 labeled == SESSION_DATA'[last'.sid].labeled
             IN  /\ last'.classified = Len(images)
                 /\ Len(labeled) = Len(images)
                 /\ \A i \in 1..Len(images) :
                       labeled[i].original = to_original_url(images[i])
                 /\ response' = Ok([results |-> labeled])]_vars

\* the payload that identify_organ parses out of a reply
ParsedPayload(o) == json_loads(_extract_json_object(ContentText(o.content)))

\* C8: identify_organ always returns a structure with an organ field and a
\* labels field; it is {organ: "unknown", labels: []} for an unreadable image,
\* a failed call, a reply that does not parse after sanitization and a parsed
\* payload that is not an object; a parsed object keeps its fields and gets
\* "unknown" for a missing organ and [] for missing labels.
C8_ClassifyTotal ==
    (last.op = "identify_organ" /\ response # Pending)
       => LET r == response.body
              inp == last.arg
          IN  /\ r.t = "dict"
              /\ {"organ", "labels"} \subseteq DOMAIN r.d
              /\ (~inp.readable \/ inp.o.kind # "reply") => r = Fallback
              /\ (inp.readable /\ inp.o.kind = "reply")
                    => LET parsed == ParsedPayload(inp.o)
                       IN  IF ~parsed.ok \/ parsed.v.t # "dict" THEN r = Fallback
                           ELSE /\ \A k \in DOMAIN parsed.v.d : r.d[k] = parsed.v.d[k]
                                /\ "organ" \notin DOMAIN parsed.v.d
                                      => r.d["organ"] = Str(<<"unknown">>)
                                /\ "labels" \notin DOMAIN parsed.v.d
                                      => r.d["labels"] = List(<<>>)

\* a failure of the inference call: a connection error, any other error, a
\* reply without content
Failed(o) == o.kind # "reply" \/ o.content = None

IsErrorText(v) == v.t = "str" /\ startswith(v.s, ErrorPrefix)

\* C9: a failed inference call makes summarize, translate and elaborate
\* return a text that begins with "Error:" and suggestReferences a list of
\* one such text; an upload and every artifact request on an existing
\* session complete with a value whatever the outcome of their calls.
C9_FailuresBecomeValues ==
    /\ (last.op \in {"upload", "summary", "translate", "details",
                     "details/translate", "references"} /\ last.sid \in Sessions)
          => response.status = 200
    /\ (last.op = "upload" /\ Failed(last.met[1]))
          => /\ IsErrorText(response.body.summary)
             /\ IsErrorText(SESSION_DATA[last.sid].summary)
    /\ (last.op = "translate" /\ last.infer = 1 /\ Failed(last.met[1]))
          => IsErrorText(response.body.summary)
    /\ (last.op = "details" /\ last.infer = 1 /\ Failed(last.met[1]))
          => IsErrorText(response.body.details)
    /\ (last.op = "details/translate" /\ last.infer = 2 /\ Failed(last.met[1]))
          => IsErrorText(SESSION_DATA[last.sid].details)
    /\ (last.op = "details/translate" /\ last.infer >= 1 /\ Failed(last.met[last.infer]))
          => IsErrorText(response.body.details)
    /\ (last.op = "references" /\ last.infer = 1 /\ Failed(last.met[1]))
          => /\ response.body.references.t = "list"
             /\ Len(response.body.references.l) = 1
             /\ IsErrorText(response.body.references.l[1])

\* the references of a session were asked for and both the summary of its
\* upload and the references met a connection error
C9_Witness ==
    /\ last.op = "references"
    /\ last.met = <<ConnError>>
    /\ last.sid \in Sessions
    /\ IsErrorText(SESSION_DATA[last.sid].summary)
    /\ response.status = 200
    /\ IsErrorText(SESSION_DATA[last.sid].references.l[1])

\* the classification of an image that C10 counts as failed: a failure, a
\* malformed output, a payload whose organ is absent, empty or not a text
FailedClassification(inp) ==
    \/ ~inp.readable
    \/ inp.o.kind # "reply"
    \/ ~ParsedPayload(inp.o).ok
    \/ ParsedPayload(inp.o).v.t # "dict"
    \/ "organ" \notin DOMAIN ParsedPayload(inp.o).v.d
    \/ ParsedPayload(inp.o).v.d["organ"].t # "str"
    \/ ParsedPayload(inp.o).v.d["organ"].s = <<>>

\* C10: whatever the classification of each image gives, a labeling request
\* on an existing session completes without raising and returns one entry
\* per stored image; the entry of a failed image has organ "unknown", empty
\* labels and no reference image.
C10_LabelNeverAborts ==
    [][(last'.op = "images/label" /\ last'.sid \in Sessions)
          => /\ response'.status = 200
             /\ Len(response'.body.results) = Len(SESSION_DATA[last'.sid].images)
             /\ \A i \in 1..Len(response'.body.results) :
                   FailedClassification(last'.met[i])
                      => /\ response'.body.results[i].organ = Str(<<"unknown">>)
                         /\ response'.body.results[i].labels = List(<<>>)
                         /\ response'.body.results[i].labeled_image = None]_vars

\* C11: no request changes the pdf_path, the text or the images of a session
\* that exists, and the session stays in the table.
C11_WriteOnce ==
    [][\A sid \in Sessions :
          /\ sid \in DOMAIN SESSION_DATA'
          /\ SESSION_DATA'[sid].pdf_path = SESSION_DATA[sid].pdf_path
          /\ SESSION_DATA'[sid].text = SESSION_DATA[sid].text
          /\ SESSION_DATA'[sid].images = SESSION_DATA[sid].images]_vars

\* a later upload, after the images of an earlier session were labeled
C11_Witness ==
    /\ last.op = "upload"
    /\ last.sid \in Sessions
    /\ \E sid \in Sessions \ {last.sid} :
          /\ SESSION_DATA[sid].labeled # <<>>
          /\ SESSION_DATA[sid].images # SESSION_DATA[last.sid].images

\* the positions of the mapping whose key is equal to name, contained in name
ExactKeys(name) == {i \in 1..Len(mapping) : mapping[i][1] = name}
SubKeys(name) == {i \in 1..Len(mapping) : IsSubstring(mapping[i][1], name)}

\* a label that is a text and not empty has been resolved
ResolvedLabel ==
    /\ last.op = "get_static_organ_image"
    /\ response # Pending
    /\ last.arg.t = "str"
    /\ last.arg.s # <<>>

\* C12: a label is lowercased and trimmed; if it is then equal to a key of
\* the mapping it resolves to the file of that key, otherwise to the file of
\* the first key, in the order of the mapping, that it contains; labels that
\* are equal after lowercasing and trimming resolve alike.
C12_ResolutionOrder ==
    ResolvedLabel =>
          LET name == strip(lower(last.arg.s))
          IN  /\ \A i \in ExactKeys(name) :
                    response = Ok(ExistingPath(mapping[i][2]))
              /\ ExactKeys(name) = {} =>
                    \A i \in SubKeys(name) :
                       (\A j \in SubKeys(name) : i <= j)
                          => response = Ok(ExistingPath(mapping[i][2]))
              /\ \A other \in NamedLabels \ {<<>>} :
                    strip(lower(other)) = name
                       => response = ResolveResult(get_static_organ_image(Str(other)))

\* "Human Heart", which contains the keys heart and ear, resolved to the file
\* of heart
C12_Witness ==
    /\ ResolvedLabel
    /\ last.arg.s = <<"H", "u", "m", "a", "n", " ", "H", "e", "a", "r", "t">>
    /\ response = Ok(OrganPath("heart.jpg"))

\* the files that the rules of C12 resolve name to
ResolvedFiles(name) ==
    IF ExactKeys(name) # {} THEN {mapping[i][2] : i \in ExactKeys(name)}
    ELSE {mapping[i][2] : i \in {k \in SubKeys(name) : \A j \in SubKeys(name) : k <= j}}

\* C13: for every label, get_static_organ_image returns and does not raise;
\* it returns a path only of a file that exists in ORGAN_IMAGE_DIR, and None
\* for an empty label, for a label that no key is equal to or contained in,
\* and for a label whose file does not exist.
C13_ResolveAbsent ==
    (last.op = "get_static_organ_image" /\ response # Pending
        /\ last.arg.t \in {"str", "none"})
       => /\ response.status = 200
          /\ response.body.t \in {"none", "path"}
          /\ response.body.t = "path"
                => /\ response.body.name \in OrganFiles
                   /\ response.body.name \in ResolvedFiles(strip(lower(last.arg.s)))
          /\ (last.arg.t = "none" \/ last.arg.s = <<>>) => response.body.t = "none"
          /\ last.arg.t = "str"
                => /\ ResolvedFiles(strip(lower(last.arg.s))) = {}
                      => response.body.t = "none"
                   /\ ResolvedFiles(strip(lower(last.arg.s))) \cap OrganFiles = {}
                      => response.body.t = "none"

\* "knee" resolved: its file joint.jpg is not in ORGAN_IMAGE_DIR
C13_Witness ==
    /\ last.op = "get_static_organ_image"
    /\ last.arg = Str(<<"k", "n", "e", "e">>)
    /\ ResolvedFiles(last.arg.s) = {"joint.jpg"}
    /\ response = Ok(None)

\* a text without the fence that it starts with and the fence that it ends
\* with, trimmed
Unwrapped(text) ==
    LET opened == IF text # <<>> /\ Head(text) = Fence THEN strip(Tail(text)) ELSE text
    IN  IF opened # <<>> /\ opened[Len(opened)] = Fence
        THEN strip(SubSeq(opened, 1, Len(opened) - 1))
        ELSE opened

\* C14: _extract_json_object returns for every text; with the text trimmed
\* and unwrapped of its fences, the result is the part from the first opening
\* brace to the last closing brace when a closing brace comes after an
\* opening one, and that whole text otherwise.
C14_SanitizerResult ==
    (last.op = "_extract_json_object" /\ response # Pending)
       => LET rest == Unwrapped(strip(last.arg))
              opens == {i \in 1..Len(rest) : rest[i] = "{"}
              closes == {i \in 1..Len(rest) : rest[i] = "}"}
          IN  /\ response.status = 200
              /\ (\E i \in opens, j \in closes : i < j)
                    => \E i \in opens, j \in closes :
                          /\ \A k \in opens : i <= k
                          /\ \A k \in closes : k <= j
                          /\ response.body = Str(SubSeq(rest, i, j))
              /\ ~(\E i \in opens, j \in closes : i < j) => response.body = Str(rest)

\* C15: a request for translated details whose elaboration result is a text
\* that begins with "Error:" does not invoke the translation and returns that
\* text.
C15_NoTranslatedFailure ==
    [][(last'.op = "details/translate" /\ last'.sid \in Sessions
           /\ IsErrorText(SESSION_DATA'[last'.sid].details))
          => /\ calls' - calls =
                   (IF SlotEmpty(SESSION_DATA[last'.sid].details) THEN 1 ELSE 0)
             /\ response'.body.details = SESSION_DATA'[last'.sid].details]_vars

\* the positions of the URLs of a line, and a line from its first URL on
UrlsAt(line) == {i \in 1..Len(line) : line[i] \in UrlTokens}

UrlSuffix(line) == SubSeq(line, First(UrlsAt(line)), Len(line))

EndsWith(line, suffix) ==
    /\ Len(line) >= Len(suffix)
    /\ SubSeq(line, Len(line) - Len(suffix) + 1, Len(line)) = suffix

\* C16: translate_references returns one line for every line of its input,
\* in order; the line of an input line with a URL ends with that line from
\* its first URL on; no text that it submits for translation holds a URL.
C16_UrlsVerbatim ==
    (last.op = "translate_references" /\ response # Pending)
       => LET refs == last.arg.refs
              out == response.body.lines.l
          IN  /\ Len(out) = Len(refs)
              /\ \A i \in 1..Len(refs) :
                    UrlsAt(refs[i].s) # {} => EndsWith(out[i].s, UrlSuffix(refs[i].s))
              /\ \A k \in 1..Len(response.body.submitted) :
                    UrlsAt(response.body.submitted[k]) = {}

\* the text of page i of a document, "" for a page without text
TextOfPage(doc, i) ==
    IF doc.pages[i].text.t = "str" THEN doc.pages[i].text.s ELSE <<>>

\* the length of the texts of the pages before page i, each with its line
\* break
RECURSIVE OffsetOfPage(_, _)
OffsetOfPage(doc, i) ==
    IF i <= 1 THEN 0 ELSE OffsetOfPage(doc, i - 1) + Len(TextOfPage(doc, i - 1)) + 1

\* C17: the result of extract_text holds, for a document of N pages, the
\* texts of pages 1..N in page order, each page after the first preceded by
\* one line break, a page without text as the empty text, and nothing else.
C17_PagesPreserved ==
    (last.op = "extract_text" /\ response # Pending)
       => LET doc == last.arg
              N == Len(doc.pages)
              r == response.body.s
          IN  /\ response.body.t = "str"
              /\ Len(r) = IF N = 0 THEN 0
                          ELSE OffsetOfPage(doc, N) + Len(TextOfPage(doc, N))
              /\ \A i \in 1..N :
                    /\ SubSeq(r, OffsetOfPage(doc, i) + 1,
                              OffsetOfPage(doc, i) + Len(TextOfPage(doc, i))) = TextOfPage(doc, i)
                    /\ i > 1 => r[OffsetOfPage(doc, i)] = "NL"

\* a document of three pages whose second page has no text
C17_Witness ==
    /\ last.op = "extract_text"
    /\ Len(last.arg.pages) = 3
    /\ last.arg.pages[1].text = Str(<<"p1">>)
    /\ last.arg.pages[2].text = None
    /\ last.arg.pages[3].text = Str(<<"p2", "NL", "p3">>)
    /\ response = Ok(Str(<<"p1", "NL", "NL", "p2", "NL", "p3">>))

\* C18: an upload in which extract_text or extract_images raises answers with
\* the error, returns no session identifier and leaves SESSION_DATA as it
\* was.
C18_FailedUploadNoSession ==
    [][(last'.op = "upload" /\ last'.raised # "")
          => /\ response'.status = 500
             /\ "session_id" \notin DOMAIN response'.body
             /\ SESSION_DATA' = SESSION_DATA]_vars

\* an upload whose image extraction raised, after its summary was computed,
\* with a session in the table
C18_Witness ==
    /\ last.op = "upload"
    /\ last.raised = "extract_images"
    /\ last.infer = 1
    /\ Sessions # {}
    /\ last.sid \notin Sessions
    /\ response = ServerError

\* C19: a start with a setting missing ends in an error and serves no
\* request; no request is handled with a setting missing.
C19_ConfigCheckedAtStartup ==
    /\ (last.op = "startup" /\ response # Pending /\ last.arg.missing # {})
          => response = Raised
    /\ last.op = "summarize_text" => last.arg.missing = {}

\* C20: a request leaves every session other than the one it names as it was,
\* an upload leaves every session that exists as it was; an upload that
\* succeeds adds one session under an identifier that was not in the table,
\* and no other request adds or removes a session.
C20_SessionIsolation ==
    [][/\ \A B \in Sessions :
             (last'.op = "upload" \/ last'.sid # B)
                => /\ B \in DOMAIN SESSION_DATA'
                   /\ SESSION_DATA'[B] = SESSION_DATA[B]
       /\ (last'.op = "upload" /\ response'.status = 200)
             => /\ last'.sid \notin Sessions
                /\ DOMAIN SESSION_DATA' = Sessions \cup {last'.sid}
                /\ response'.body.session_id = last'.sid
       /\ ~(last'.op = "upload" /\ response'.status = 200)
             => DOMAIN SESSION_DATA' = Sessions]_vars

\* the details of one of two sessions were computed and stored
C20_Witness ==
    /\ last.op = "details"
    /\ last.infer = 1
    /\ last.sid \in Sessions
    /\ SESSION_DATA[last.sid].details # None
    /\ \E B \in Sessions \ {last.sid} : SESSION_DATA[B].details = None

\* the paths of the extracted images ex that met no storage error and have
\* more than 1024 bytes, in the order of ex
RemainingLarge(ex, oserror) ==
    LET Keep(e) == e.path \notin oserror /\ e.size > 1024
        kept == SelectSeq(ex, Keep)
    IN  [i \in 1..Len(kept) |-> kept[i].path]

\* C21: an upload whose extractions succeed creates its session whatever
\* storage errors the filter pass met, and the images of the session are
\* exactly the extracted images, in order, at which no storage error was met
\* and whose size exceeds 1024 bytes; the images at which an error was met
\* are extracted images left out of images.
C21_BestEffortFilter ==
    [][(last'.op = "upload" /\ last'.raised = "")
          => /\ response'.status = 200
             /\ last'.sid \notin Sessions
             /\ last'.sid \in DOMAIN SESSION_DATA'
             /\ SESSION_DATA'[last'.sid].images
                   = RemainingLarge(last'.extracted, last'.oserror)
             /\ response'.body.image_count
                   = Len(RemainingLarge(last'.extracted, last'.oserror))
             /\ \A p \in last'.oserror :
                   /\ \E i \in 1..Len(last'.extracted) : last'.extracted[i].path = p
                   /\ \A i \in 1..Len(SESSION_DATA'[last'.sid].images) :
                         SESSION_DATA'[last'.sid].images[i] # p]_vars

\* an upload of the document with images of 1024, 1025 and 2048 bytes that
\* could not delete the first, could not inspect the second and kept the third
C21_Witness ==
    /\ last.op = "upload"
    /\ last.sid \in Sessions
    /\ Len(last.extracted) = 3
    /\ last.oserror = {ImagePath(last.sid, 1, 1), ImagePath(last.sid, 1, 2)}
    /\ SESSION_DATA[last.sid].images = <<ImagePath(last.sid, 1, 3)>>
    /\ response.body.image_count = 1

\* the paths of a session's images
PathsOf(sid) == {SESSION_DATA[sid].images[i] : i \in 1..Len(SESSION_DATA[sid].images)}

\* no two entries of a session's images are the same path, every entry lies
\* in the directory of its session, and no path is in the images of two sessions
C22_Owned ==
    /\ \A sid \in Sessions :
          LET images == SESSION_DATA[sid].images
          IN  /\ \A i, j \in 1..Len(images) : i # j => images[i] # images[j]
              /\ \A i \in 1..Len(images) : images[i].dir = sid
    /\ \A s1, s2 \in Sessions : s1 # s2 => PathsOf(s1) \cap PathsOf(s2) = {}

\* what an upload extracted: every image is named page N, image M in the
\* directory of the new session, N and M counted from 1; the images of a page
\* are numbered 1, 2, ... without a gap, and the sequence goes page by page
C22_Extracted ==
    (last'.op = "upload" /\ last'.raised = "")
       => LET ex == last'.extracted
          IN  \A i \in 1..Len(ex) :
                 /\ ex[i].path = ImagePath(last'.sid, ex[i].path.page, ex[i].path.img)
                 /\ ex[i].path.dir = last'.sid
                 /\ ex[i].path.page >= 1
                 /\ ex[i].path.img >= 1
                 /\ IF i > 1 /\ ex[i - 1].path.page = ex[i].path.page
                    THEN ex[i].path.img = ex[i - 1].path.img + 1
                    ELSE /\ ex[i].path.img = 1
                         /\ i > 1 => ex[i - 1].path.page < ex[i].path.page

\* C22: the extracted images come page by page and then by position, each
\* named page N, image M, counted from 1, in the directory of its
\* session; the paths of one session are pairwise distinct and in every
\* reachable state no image path is in the images of two sessions.
C22_ExclusiveImages == []C22_Owned /\ [][C22_Extracted]_vars

\* two sessions that keep images, the later one uploaded from the document
\* with three images on its page
C22_Witness ==
    /\ last.op = "upload"
    /\ last.sid \in Sessions
    /\ Len(last.extracted) = 3
    /\ Len(SESSION_DATA[last.sid].images) = 2
    /\ \E sid \in Sessions \ {last.sid} :
          SESSION_DATA[sid].images = <<ImagePath(sid, 1, 1)>>

\* C23: a single-image identification leaves the session table as it was,
\* whatever the classification gave, and answers with the status "ok" when
\* a reference image was resolved and "not_found" when none was.
C23_IdentifyBypassesSessions ==
    [][last'.op = "identify-organ-image"
          => /\ SESSION_DATA' = SESSION_DATA
             /\ response'.status = 200
             /\ response'.body.image_generation_status
                   = IF response'.body.detailed_image # None THEN "ok" ELSE "not_found"]_vars

\* the value that generate_references returns for a failure
IsErrorList(v) == v.t = "list" /\ Len(v.l) = 1 /\ IsErrorText(v.l[1])

\* a request for an artifact whose stored value is the error value answers
\* with the stored value, makes no inference call and leaves the table as it is
C24_Cached ==
    \A sid \in Sessions :
       LET data == SESSION_DATA[sid]
           Served(field, v) ==
              /\ response'.status = 200
              /\ response'.body[field] = v
              /\ last'.infer = 0
              /\ calls' = calls
              /\ SESSION_DATA' = SESSION_DATA
       IN  /\ (last'.sid = sid /\ last'.op = "summary" /\ IsErrorText(data.summary))
                 => Served("summary", data.summary)
           /\ (last'.sid = sid /\ last'.op = "details" /\ data.details # None
                  /\ IsErrorText(data.details))
                 => Served("details", data.details)
           /\ (last'.sid = sid /\ last'.op = "references" /\ data.references # None
                  /\ IsErrorList(data.references))
                 => Served("references", data.references)
           /\ (last'.sid = sid /\ last'.op = "translate"
                  /\ last'.lang \in DOMAIN data.translations
                  /\ IsErrorText(data.translations[last'.lang]))
                 => Served("summary", data.translations[last'.lang])

\* a computation that returned the error value has stored it
C24_Stored ==
    /\ (last'.op = "upload" /\ last'.raised = "" /\ IsErrorText(response'.body.summary))
          => SESSION_DATA'[last'.sid].summary = response'.body.summary
    /\ (last'.op = "details" /\ last'.infer = 1 /\ IsErrorText(response'.body.details))
          => SESSION_DATA'[last'.sid].details = response'.body.details
    /\ (last'.op = "references" /\ last'.infer = 1
           /\ IsErrorList(response'.body.references))
          => SESSION_DATA'[last'.sid].references = response'.body.references
    /\ (last'.op = "translate" /\ last'.infer = 1 /\ IsErrorText(response'.body.summary))
          => SESSION_DATA'[last'.sid].translations[last'.lang] = response'.body.summary

\* C24: when the computation of the summary, the details, the references or
\* the translation to a language returned the error value, that value is
\* stored for the artifact, and every later request for the artifact
\* returns the stored value without an inference call, whatever the
\* inference service would answer by then.
C24_FailuresCached == [][C24_Stored /\ C24_Cached]_vars

\* the details failed, the service answered a later request of the same
\* session, and a further request for the details got the stored failure
C24_Witness ==
    /\ last.op = "details"
    /\ last.infer = 0
    /\ last.sid \in Sessions
    /\ IsErrorText(SESSION_DATA[last.sid].details)
    /\ response.body.details = SESSION_DATA[last.sid].details
    /\ SESSION_DATA[last.sid].references # None
    /\ ~IsErrorList(SESSION_DATA[last.sid].references)

\* the stored files at the pdf_path of session sid in storage fs
SourceOf(sid, fs) == {f \in fs : f.path = SESSION_DATA[sid].pdf_path}

\* two different sessions have different pdf_path values, and one document
\* is stored at the pdf_path of every session
C25_OwnSource ==
    /\ \A s1, s2 \in Sessions :
          s1 # s2 => SESSION_DATA[s1].pdf_path # SESSION_DATA[s2].pdf_path
    /\ \A sid \in Sessions : Cardinality(SourceOf(sid, files)) = 1

\* no request changes what is stored at the pdf_path of an existing session
C25_SourceKept ==
    \A sid \in Sessions : SourceOf(sid, files') = SourceOf(sid, files)

\* C25: in every reachable state two different sessions have different
\* pdf_path values, and the document stored at the pdf_path of a session
\* stays the one uploaded for it through every later upload, uploads under
\* the same filename included.
C25_SourcesNotShared == []C25_OwnSource /\ [][C25_SourceKept]_vars

====
